---- MODULE Spec2Model ----
(***************************************************************************)
(* Model of fm-scout (src/src/main.rs): the position-weighted scoring      *)
(* function Player::calculate_score and the filter/rank pipeline           *)
(* find_gems (rayon parallel filter, progress counter, stable sort_by).    *)
(*                                                                         *)
(* Numbers.  An f64 is a record [k, n]: k is "fin", "nan", "pinf" or       *)
(* "ninf"; for a finite number n is an exact fixed-point numerator.        *)
(*   - money (Player.value, the filter threshold, the 50_000_000 cap) is   *)
(*     counted in MoneyUnit currency units;                                *)
(*   - Args.max_value (millions) is counted in tenths of a million;        *)
(*   - scores and their components are counted in 1/Scale.                 *)
(* Every operation below is exact on the inputs the model draws (money a   *)
(* multiple of MoneyUnit, Scale divisible by every weight sum, by 200 and  *)
(* by 5), so the order and the equality of scores are those of the real    *)
(* numbers the code's f64 expressions denote.                              *)
(*                                                                         *)
(* Strings that the code inspects (Player.position, Args.position) are     *)
(* sequences of one-character strings, so that to_uppercase, to_lowercase  *)
(* and contains are computed character by character.                       *)
(***************************************************************************)
EXTENDS Integers, Sequences, FiniteSets, TLC

VARIABLES players, args, pc, status, keep, pb_pos, filtered, sort_i, sort_j,
          score_log, result

vars == <<players, args, pc, status, keep, pb_pos, filtered, sort_i, sort_j,
          score_log, result>>

----------------------------------------------------------------------------
(* Bounds of the model *)

\* longest input record list
MaxPlayers == 3

\* threads of the rayon pool evaluating the filter closure at the same time
NumWorkers == 2

----------------------------------------------------------------------------
(* Fixed-point units *)

MoneyUnit == 50 * 1000

Scale == 15 * 1000

\* 50_000_000.0, main.rs line 100
ValueCap == 50000000 \div MoneyUnit

\* 1_000_000.0, main.rs line 119
Million == 1000000 \div MoneyUnit

\* 200.0, main.rs line 99
PotentialDenominator == 200

----------------------------------------------------------------------------
(* f64 *)

Fin(n) == [k |-> "fin", n |-> n]

NaN == [k |-> "nan", n |-> 0]

PInf == [k |-> "pinf", n |-> 0]

NInf == [k |-> "ninf", n |-> 0]

\* 1.0 in 1/Scale
One == Fin(Scale)

\* a currency amount as an f64 in MoneyUnit
Money(amount) == Fin(amount \div MoneyUnit)

\* f64 PartialOrd::partial_cmp: None when either side is NaN
PartialCmp(a, b) ==
    IF a.k = "nan" \/ b.k = "nan" THEN "None"
    ELSE IF a.k = b.k /\ a.n = b.n THEN "Equal"
    ELSE IF a.k = "ninf" \/ b.k = "pinf" THEN "Less"
    ELSE IF a.k = "pinf" \/ b.k = "ninf" THEN "Greater"
    ELSE IF a.n < b.n THEN "Less" ELSE "Greater"

\* f64 `a <= b`: false when either side is NaN
FLe(a, b) == PartialCmp(a, b) \in {"Less", "Equal"}

\* f64::min: a NaN operand is ignored
FMin(a, b) ==
    IF a.k = "nan" THEN b
    ELSE IF b.k = "nan" THEN a
    ELSE IF PartialCmp(a, b) = "Less" THEN a ELSE b

\* f64 negation
FNeg(a) ==
    CASE a.k = "fin" -> Fin(0 - a.n)
      [] a.k = "pinf" -> NInf
      [] a.k = "ninf" -> PInf
      [] OTHER -> NaN

\* f64 addition of two numbers of the same unit
FAdd(a, b) ==
    IF a.k = "nan" \/ b.k = "nan" THEN NaN
    ELSE IF a.k = "fin" /\ b.k = "fin" THEN Fin(a.n + b.n)
    ELSE IF a.k = "fin" THEN b
    ELSE IF b.k = "fin" THEN a
    ELSE IF a.k = b.k THEN a ELSE NaN

\* f64 subtraction
FSub(a, b) == FAdd(a, FNeg(b))

\* f64 product with the positive constant num/den (0.4 is 2/5, 0.2 is 1/5,
\* 1_000_000.0 on tenths of a million is Million/10)
FTimes(a, num, den) ==
    IF a.k = "fin" THEN Fin((a.n * num) \div den) ELSE a

\* f64 quotient of two numbers of the same unit, in 1/Scale;
\* 0/0 and inf/inf are NaN, x/0 is an infinity
FDiv(a, b) ==
    IF a.k = "nan" \/ b.k = "nan" THEN NaN
    ELSE IF a.k = "fin" /\ b.k = "fin" THEN
        IF b.n = 0
        THEN (IF a.n = 0 THEN NaN ELSE IF a.n > 0 THEN PInf ELSE NInf)
        ELSE Fin((a.n * Scale) \div b.n)
    ELSE IF a.k = "fin" THEN Fin(0)
    ELSE IF b.k # "fin" THEN NaN
    ELSE IF (a.k = "pinf") = (b.n >= 0) THEN PInf ELSE NInf

----------------------------------------------------------------------------
(* Strings *)

Str_ST == <<"S", "T">>

Str_CM == <<"C", "M">>

Str_CB == <<"C", "B">>

Letters == <<"A", "B", "C", "G", "K", "M", "S", "T">>

LowerLetters == <<"a", "b", "c", "g", "k", "m", "s", "t">>

\* char::to_uppercase on the model's alphabet
UpperChar(c) ==
    IF \E i \in DOMAIN LowerLetters : LowerLetters[i] = c
    THEN Letters[CHOOSE i \in DOMAIN LowerLetters : LowerLetters[i] = c]
    ELSE c

\* char::to_lowercase on the model's alphabet
LowerChar(c) ==
    IF \E i \in DOMAIN Letters : Letters[i] = c
    THEN LowerLetters[CHOOSE i \in DOMAIN Letters : Letters[i] = c]
    ELSE c

\* str::to_uppercase
to_uppercase(s) == [i \in DOMAIN s |-> UpperChar(s[i])]

\* str::to_lowercase
to_lowercase(s) == [i \in DOMAIN s |-> LowerChar(s[i])]

\* str::contains(&str): the needle occurs as a contiguous substring
contains(hay, needle) ==
    \E i \in 0..(Len(hay) - Len(needle)) :
        SubSeq(hay, i + 1, i + Len(needle)) = needle

----------------------------------------------------------------------------
(* Player::calculate_score, main.rs lines 63-103 *)

\* The (attribute, weight) pairs selected by the uppercased position;
\* a weight is counted in tenths (2.0 is 20, 1.5 is 15, 1.0 is 10).
position_weights_empty_default(self, position) ==
    LET up == to_uppercase(position) IN
    CASE up = Str_ST -> << <<self.finishing, 20>>, <<self.first_touch, 15>>,
                           <<self.acceleration, 15>>, <<self.pace, 15>>,
                           <<self.composure, 10>> >>
      [] up = Str_CM -> << <<self.passing, 20>>, <<self.vision, 15>>,
                           <<self.decisions, 15>>, <<self.stamina, 10>>,
                           <<self.work_rate, 15>> >>
      [] up = Str_CB -> << <<self.tackling, 20>>, <<self.strength, 15>>,
                           <<self.jumping, 15>>, <<self.anticipation, 15>>,
                           <<self.decisions, 10>> >>
      [] OTHER -> << >>

position_weights_case_sensitive(self, position) ==
    CASE position = Str_ST -> << <<self.finishing, 20>>, <<self.first_touch, 15>>,
                                 <<self.acceleration, 15>>, <<self.pace, 15>>,
                                 <<self.composure, 10>> >>
      [] position = Str_CM -> << <<self.passing, 20>>, <<self.vision, 15>>,
                                 <<self.decisions, 15>>, <<self.stamina, 10>>,
                                 <<self.work_rate, 15>> >>
      [] position = Str_CB -> << <<self.tackling, 20>>, <<self.strength, 15>>,
                                 <<self.jumping, 15>>, <<self.anticipation, 15>>,
                                 <<self.decisions, 10>> >>
      [] OTHER -> << <<self.technique, 10>>, <<self.decisions, 10>>,
                     <<self.stamina, 10>>, <<self.strength, 10>>,
                     <<self.work_rate, 10>> >>

position_weights(self, position) ==
    LET up == to_uppercase(position) IN
    CASE up = Str_ST -> << <<self.finishing, 20>>, <<self.first_touch, 15>>,
                           <<self.acceleration, 15>>, <<self.pace, 15>>,
                           <<self.composure, 10>> >>
      [] up = Str_CM -> << <<self.passing, 20>>, <<self.vision, 15>>,
                           <<self.decisions, 15>>, <<self.stamina, 10>>,
                           <<self.work_rate, 15>> >>
      [] up = Str_CB -> << <<self.tackling, 20>>, <<self.strength, 15>>,
                           <<self.jumping, 15>>, <<self.anticipation, 15>>,
                           <<self.decisions, 10>> >>
      [] OTHER -> << <<self.technique, 10>>, <<self.decisions, 10>>,
                     <<self.stamina, 10>>, <<self.strength, 10>>,
                     <<self.work_rate, 10>> >>

\* .map(|(attr, weight)| *attr as f64 * weight).sum::<f64>()
RECURSIVE SumProducts(_)
SumProducts(pw) ==
    IF pw = << >> THEN 0
    ELSE pw[1][1] * pw[1][2] + SumProducts(Tail(pw))

\* .map(|(_, w)| w).sum::<f64>()
RECURSIVE SumWeights(_)
SumWeights(pw) ==
    IF pw = << >> THEN 0 ELSE pw[1][2] + SumWeights(Tail(pw))

\* line 95-97
attribute_score(self, position) ==
    LET pw == position_weights(self, position) IN
    FDiv(Fin(SumProducts(pw)), Fin(SumWeights(pw)))

\* line 99
potential_score(self) ==
    FDiv(Fin(self.potential_ability), Fin(PotentialDenominator))

value_score_unclamped(self) ==
    FSub(One, FDiv(self.value, Fin(ValueCap)))

\* line 100
value_score(self) ==
    FSub(One, FDiv(FMin(self.value, Fin(ValueCap)), Fin(ValueCap)))

calculate_score_equal_thirds(self, position) ==
    FAdd(FAdd(FTimes(attribute_score(self, position), 1, 3),
              FTimes(potential_score(self), 1, 3)),
         FTimes(value_score(self), 1, 3))

\* line 102
calculate_score(self, position) ==
    FAdd(FAdd(FTimes(attribute_score(self, position), 2, 5),
              FTimes(potential_score(self), 2, 5)),
         FTimes(value_score(self), 1, 5))

----------------------------------------------------------------------------
(* Inputs: struct Player (lines 10-40) and struct Args (lines 42-60) *)

Pos_ST == <<"S", "T">>

Pos_AM_ST == <<"A", "M", ",", " ", "S", "T">>

Pos_CM_ST == <<"C", "M", ",", "S", "T">>

\* Record A of the specification's end-to-end example
RecordA ==
    [name |-> "A", age |-> 20, club |-> "Ajax", nationality |-> "NL",
     position |-> Pos_ST, value |-> Money(2000000), wage |-> Money(100000),
     current_ability |-> 120, potential_ability |-> 150,
     finishing |-> 18, first_touch |-> 16, passing |-> 11, technique |-> 13,
     dribbling |-> 12, tackling |-> 5,
     decisions |-> 12, anticipation |-> 13, composure |-> 14, vision |-> 10,
     work_rate |-> 11,
     acceleration |-> 17, pace |-> 18, stamina |-> 12, strength |-> 9,
     jumping |-> 8]

\* Record B of the example: too old for max_age 23, better potential
RecordB ==
    [RecordA EXCEPT !.name = "B", !.age = 25, !.value = Money(1000000),
                    !.potential_ability = 160]

\* a two-position record; scores as Record A does for ST
RecordC ==
    [RecordA EXCEPT !.name = "C", !.age = 21, !.position = Pos_AM_ST,
                    !.dribbling = 15]

\* the value column parsed as "-inf"
RecordD ==
    [RecordA EXCEPT !.name = "D", !.age = 19, !.value = NInf,
                    !.potential_ability = 140, !.finishing = 10]

\* the value column parsed as "NaN"
RecordE ==
    [RecordA EXCEPT !.name = "E", !.age = 19, !.value = NaN,
                    !.potential_ability = 170]

\* above the value cap; fails only the value clause under max_value 5.0
RecordF ==
    [RecordA EXCEPT !.name = "F", !.age = 22, !.position = Pos_CM_ST,
                    !.value = Money(60000000), !.passing = 17]

\* the value column parsed as "inf"
RecordG ==
    [RecordA EXCEPT !.name = "G", !.age = 22, !.value = PInf]

PlayerPool ==
    {RecordA, RecordB, RecordC, RecordD, RecordE, RecordF, RecordG}

\* Vec<Player> of length at most MaxPlayers, in any order, repeats allowed
PlayerLists == UNION {[1..n -> PlayerPool] : n \in 0..MaxPlayers}

\* max_value is counted in tenths of a million
ArgsPool ==
    { [max_age |-> 23, max_value |-> Fin(50), min_potential |-> 130,
       position |-> <<"S", "T">>],
      [max_age |-> 30, max_value |-> PInf, min_potential |-> 0,
       position |-> <<"s", "t">>],
      [max_age |-> 255, max_value |-> Fin(1000), min_potential |-> 0,
       position |-> <<"m">>],
      [max_age |-> 23, max_value |-> NaN, min_potential |-> 130,
       position |-> <<"S", "T">>] }

----------------------------------------------------------------------------
(* find_gems, main.rs lines 106-135 *)

pb_inc_set_position(pos, delta) == delta

\* ProgressBar::inc: an atomic fetch-add on the bar's position (line 117)
pb_inc(pos, delta) == pos + delta

filter_predicate_exact_position(p, a) ==
    /\ p.age <= a.max_age
    /\ FLe(p.value, FTimes(a.max_value, Million, 10))
    /\ p.potential_ability >= a.min_potential
    /\ to_lowercase(p.position) = to_lowercase(a.position)

\* the filter closure after pb.inc(1), lines 118-121
filter_predicate(p, a) ==
    /\ p.age <= a.max_age
    /\ FLe(p.value, FTimes(a.max_value, Million, 10))
    /\ p.potential_ability >= a.min_potential
    /\ contains(to_lowercase(p.position), to_lowercase(a.position))

\* records whose closure call is running on some rayon thread
InFlight == {i \in DOMAIN status : status[i] = "inc"}

filter_complete_early == InFlight = {}

\* collect() returns when the closure has returned for every record
filter_complete == \A i \in DOMAIN status : status[i] = "done"

\* the kept records in input order, each with the index it came from
RECURSIVE Collected(_)
Collected(n) ==
    IF n = 0 THEN << >>
    ELSE IF status[n] = "done" /\ keep[n]
         THEN Append(Collected(n - 1), [rec |-> players[n], src |-> n])
         ELSE Collected(n - 1)

sort_cmp_reversed(a, b, position) ==
    PartialCmp(calculate_score(a, position), calculate_score(b, position))

sort_cmp_same_record(a, b, position) ==
    PartialCmp(calculate_score(a, position), calculate_score(a, position))

sort_cmp_no_equal(a, b, position) ==
    LET ord == PartialCmp(calculate_score(b, position),
                          calculate_score(a, position))
    IN  IF ord = "Equal" THEN "Less" ELSE ord

\* the sort_by closure, lines 128-132; "None" is where unwrap() panics
sort_cmp(a, b, position) ==
    PartialCmp(calculate_score(b, position), calculate_score(a, position))

Swap(s, i, j) == [s EXCEPT ![i] = s[j], ![j] = s[i]]

Init ==
    /\ players \in PlayerLists
    /\ args \in ArgsPool
    /\ pc = "filter"
    /\ status = [i \in DOMAIN players |-> "todo"]
    /\ keep = [i \in DOMAIN players |-> FALSE]
    /\ pb_pos = 0
    /\ filtered = << >>
    /\ sort_i = 0
    /\ sort_j = 0
    /\ score_log = << >>
    /\ result = << >>

\* a rayon thread enters the closure for record i and runs pb.inc(1)
FilterInc(i) ==
    /\ pc = "filter"
    /\ status[i] = "todo"
    /\ Cardinality(InFlight) < NumWorkers
    /\ status' = [status EXCEPT ![i] = "inc"]
    /\ pb_pos' = pb_inc(pb_pos, 1)
    /\ UNCHANGED <<players, args, pc, keep, filtered, sort_i, sort_j,
                   score_log, result>>

\* the thread evaluates the short-circuiting predicate and returns
FilterTest(i) ==
    /\ pc = "filter"
    /\ status[i] = "inc"
    /\ status' = [status EXCEPT ![i] = "done"]
    /\ keep' = [keep EXCEPT ![i] = filter_predicate(players[i], args)]
    /\ UNCHANGED <<players, args, pc, pb_pos, filtered, sort_i, sort_j,
                   score_log, result>>

\* .cloned().collect(): the kept records, in input order (line 123-124)
Collect ==
    /\ pc = "filter"
    /\ filter_complete
    /\ filtered' = Collected(Len(players))
    /\ pc' = "finish"
    /\ UNCHANGED <<players, args, status, keep, pb_pos, sort_i, sort_j,
                   score_log, result>>

\* pb.finish_with_message: the bar jumps to its length (line 126)
PbFinish ==
    /\ pc = "finish"
    /\ pb_pos' = Len(players)
    /\ pc' = "sort"
    /\ sort_i' = 2
    /\ sort_j' = 2
    /\ UNCHANGED <<players, args, status, keep, filtered, score_log, result>>

\* One call of the sort_by closure by the stable insertion sort that
\* slice::sort_by runs on short slices: the element at sort_j is compared
\* with its left neighbour and moves left while it is Less.
SortCompare ==
    /\ pc = "sort"
    /\ sort_i <= Len(filtered)
    /\ LET a == filtered[sort_j].rec
           b == filtered[sort_j - 1].rec
           ord == sort_cmp(a, b, args.position)
       IN  /\ score_log' = <<calculate_score(a, args.position),
                             calculate_score(b, args.position)>>
           /\ IF ord = "None"
              THEN /\ pc' = "panicked"
                   /\ UNCHANGED <<filtered, sort_i, sort_j>>
              ELSE IF ord = "Less"
              THEN /\ filtered' = Swap(filtered, sort_j - 1, sort_j)
                   /\ IF sort_j - 1 > 1
                      THEN /\ sort_j' = sort_j - 1
                           /\ sort_i' = sort_i
                      ELSE /\ sort_i' = sort_i + 1
                           /\ sort_j' = sort_i + 1
                   /\ pc' = pc
              ELSE /\ sort_i' = sort_i + 1
                   /\ sort_j' = sort_i + 1
                   /\ UNCHANGED <<filtered, pc>>
    /\ UNCHANGED <<players, args, status, keep, pb_pos, result>>

\* line 134
Return ==
    /\ pc = "sort"
    /\ sort_i > Len(filtered)
    /\ result' = [k \in DOMAIN filtered |-> filtered[k].rec]
    /\ pc' = "done"
    /\ UNCHANGED <<players, args, status, keep, pb_pos, filtered, sort_i,
                   sort_j, score_log>>

Next ==
    \/ \E i \in DOMAIN players : FilterInc(i)
    \/ \E i \in DOMAIN players : FilterTest(i)
    \/ Collect
    \/ PbFinish
    \/ SortCompare
    \/ Return

Spec == Init /\ [][Next]_vars

----------------------------------------------------------------------------
(* calculate_score on its own: display_player's call, main.rs line 180 *)

ScoreValues ==
    {Money(0), Money(2000000), Money(25000000), Money(50000000),
     Money(60000000), Money(70000000), Money(0 - 1000000), PInf, NInf, NaN}

ScoreRecords ==
    {[RecordA EXCEPT !.finishing = f, !.technique = t, !.passing = pa,
                     !.tackling = ta, !.potential_ability = po, !.value = v] :
        f \in {1, 18, 255}, t \in {13, 20}, pa \in {11, 17}, ta \in {5, 16},
        po \in {0, 150, 200}, v \in ScoreValues}

Targets ==
    { <<"S", "T">>, <<"s", "t">>, <<"S", "t">>, <<"s", "T">>,
      <<"C", "M">>, <<"c", "m">>, <<"C", "B">>, <<"C", "b">>,
      <<"G", "K">>, <<"g", "k">>, << >>, <<"S">> }

ScoreInit ==
    /\ players \in {<<r>> : r \in ScoreRecords}
    /\ args \in {[max_age |-> 23, max_value |-> Fin(50), min_potential |-> 130,
                  position |-> t] : t \in Targets}
    /\ pc = "display"
    /\ status = << >>
    /\ keep = << >>
    /\ pb_pos = 0
    /\ filtered = << >>
    /\ sort_i = 0
    /\ sort_j = 0
    /\ score_log = << >>
    /\ result = << >>

\* println!("\nOverall Score: {:.2}", player.calculate_score(position))
DisplayScore ==
    /\ pc = "display"
    /\ score_log' = <<calculate_score(players[1], args.position)>>
    /\ pc' = "displayed"
    /\ UNCHANGED <<players, args, status, keep, pb_pos, filtered, sort_i,
                   sort_j, result>>

ScoreNext == DisplayScore

SpecScore == ScoreInit /\ [][ScoreNext]_vars

----------------------------------------------------------------------------
(* Properties of find_gems *)

Range(seq) == {seq[i] : i \in DOMAIN seq}

Count(seq, r) == Cardinality({i \in DOMAIN seq : seq[i] = r})

\* the four clauses as the specification words them, on the raw numbers:
\* value <= max_value * 1,000,000 is cross-multiplied (value in MoneyUnit,
\* max_value in tenths of a million), NaN satisfies no comparison
ClauseAge(r, a) == r.age <= a.max_age

ClauseValue(r, a) ==
    /\ r.value.k # "nan"
    /\ a.max_value.k # "nan"
    /\ \/ r.value.k = "ninf"
       \/ a.max_value.k = "pinf"
       \/ /\ r.value.k = "fin"
          /\ a.max_value.k = "fin"
          /\ r.value.n * MoneyUnit * 10 <= a.max_value.n * 1000000

ClausePotential(r, a) == r.potential_ability >= a.min_potential

ClausePosition(r, a) ==
    \E off \in 0..Len(r.position) :
        /\ off + Len(a.position) <= Len(r.position)
        /\ \A k \in DOMAIN a.position :
              LowerChar(r.position[off + k]) = LowerChar(a.position[k])

AllClauses(r, a) ==
    ClauseAge(r, a) /\ ClauseValue(r, a) /\ ClausePotential(r, a)
        /\ ClausePosition(r, a)

\* C1: the sequence find_gems returns holds exactly the input records that
\* satisfy all four clauses, each as often as it occurs in the input and
\* field for field as it was; a record failing a clause is absent.
C1_FilterCorrect ==
    pc = "done" =>
        /\ \A k \in DOMAIN result : result[k] \in Range(players)
        /\ \A r \in Range(players) :
              Count(result, r) =
                  IF AllClauses(r, args) THEN Count(players, r) ELSE 0

\* "AM, ST" is kept for target "ST"; age 25 is dropped under max_age 23
\* though its other three clauses hold; a repeated record is kept twice
C1_Witness ==
    /\ pc = "done"
    /\ args.max_age = 23
    /\ args.position = <<"S", "T">>
    /\ args.max_value = Fin(50)
    /\ RecordB \in Range(players)
    /\ ClauseValue(RecordB, args) /\ ClausePotential(RecordB, args)
    /\ ClausePosition(RecordB, args)
    /\ RecordB \notin Range(result)
    /\ Count(players, RecordC) = 2
    /\ Count(result, RecordC) = 2

\* C2: the returned sequence is non-increasing in calculate_score against
\* the configured position.
C2_NonIncreasing ==
    pc = "done" =>
        \A k \in 1..(Len(result) - 1) :
            PartialCmp(calculate_score(result[k], args.position),
                       calculate_score(result[k + 1], args.position))
                \in {"Greater", "Equal"}

\* the sort moved a better record in front of a worse one that preceded it
\* in the input
C2_Witness ==
    /\ pc = "done"
    /\ Len(result) = 3
    /\ players = <<RecordA, RecordB, RecordD>>
    /\ result = <<RecordD, RecordB, RecordA>>

\* C6: find_gems never panics: the unwrap() of partial_cmp is never reached
\* with a score that is NaN, whatever NaN or infinite value or max_value
\* comes in; the filter phase always has a step to take until collect(),
\* and every comparison of the sort reads two elements inside the slice.
C6_NeverRaises ==
    /\ pc # "panicked"
    /\ pc \in {"sort", "done"} =>
          \A i, j \in DOMAIN filtered :
              sort_cmp(filtered[i].rec, filtered[j].rec, args.position)
                  # "None"
    /\ pc = "filter" =>
          \/ ENABLED Collect
          \/ \E i \in DOMAIN players :
                 (ENABLED FilterInc(i)) \/ (ENABLED FilterTest(i))
    /\ (pc = "sort" /\ sort_i <= Len(filtered)) =>
          (2 <= sort_j /\ sort_j <= sort_i)

\* a NaN value was dropped by the filter, a +inf and a -inf value survived
\* an infinite max_value, the +inf score was compared and the run returned
C6_Witness ==
    /\ pc = "done"
    /\ args.max_value = PInf
    /\ players = <<RecordE, RecordG, RecordD>>
    /\ result = <<RecordD, RecordG>>
    /\ score_log # << >>
    /\ score_log[1] = PInf

\* no survivor, no comparison, an empty Vec returned
C6_EmptyWitness ==
    /\ pc = "done"
    /\ Len(players) = MaxPlayers
    /\ result = << >>

\* C7: whatever order the threads evaluate the records in, the sort phase
\* starts only when every record's predicate has been evaluated, and the
\* survivors are then the records satisfying the predicate, whichever
\* interleaving led there.
C7_FilterOrderIndependent ==
    pc # "filter" =>
        /\ \A i \in DOMAIN players : status[i] = "done"
        /\ Len(filtered) =
               Cardinality({i \in DOMAIN players :
                               filter_predicate(players[i], args)})
        /\ \A k \in DOMAIN filtered :
              /\ filter_predicate(players[filtered[k].src], args)
              /\ filtered[k].rec = players[filtered[k].src]
        /\ \A k, l \in DOMAIN filtered :
              k # l => filtered[k].src # filtered[l].src

\* the filter phase has just completed with some records kept, some dropped
C7_Witness ==
    /\ pc = "finish"
    /\ Len(players) = 3
    /\ Len(filtered) = 2

\* a later record is evaluated while two earlier ones are still untested
C7_InterleavingWitness ==
    /\ pc = "filter"
    /\ Len(players) = 3
    /\ status = <<"todo", "inc", "done">>

\* the pipeline computing each survivor's score once and sorting, with the
\* same stable insertion sort, by the cached value
RefKeyed(ps, a) ==
    LET kept == SelectSeq(ps, LAMBDA p : AllClauses(p, a))
    IN  [k \in DOMAIN kept |->
            [rec |-> kept[k], key |-> calculate_score(kept[k], a.position)]]

\* x goes after every element whose cached key is not Less than its own
RECURSIVE RefInsert(_, _)
RefInsert(sorted, x) ==
    IF sorted = << >> THEN <<x>>
    ELSE LET last == sorted[Len(sorted)] IN
         IF PartialCmp(last.key, x.key) = "Less"
         THEN Append(RefInsert(SubSeq(sorted, 1, Len(sorted) - 1), x), last)
         ELSE Append(sorted, x)

RECURSIVE RefSort(_)
RefSort(keyed) ==
    IF keyed = << >> THEN << >>
    ELSE RefInsert(RefSort(SubSeq(keyed, 1, Len(keyed) - 1)),
                   keyed[Len(keyed)])

RefPipeline(ps, a) ==
    LET sorted == RefSort(RefKeyed(ps, a))
    IN  [k \in DOMAIN sorted |-> sorted[k].rec]

\* C8: recomputing both scores inside every comparison gives the output of
\* the reference pipeline that scores each survivor once and sorts by the
\* cached value; no step of find_gems changes a record or the configuration.
C8_SameAsCachedSort ==
    /\ [](pc = "done" => result = RefPipeline(players, args))
    /\ [][players' = players /\ args' = args]_vars

\* a run whose sort made several comparisons and reordered the survivors
C8_Witness ==
    /\ pc = "done"
    /\ players = <<RecordC, RecordB, RecordD>>
    /\ result = <<RecordD, RecordB, RecordC>>
    /\ score_log # << >>

\* filter closures begun so far
Started == {i \in DOMAIN status : status[i] # "todo"}

C9_CounterState ==
    /\ pc = "filter" => pb_pos = Cardinality(Started)
    /\ pc # "filter" => pb_pos = Len(players)

\* C9: the progress counter counts one per input record, kept or not: during
\* the filter it equals the number of closure calls begun under every
\* interleaving (no increment lost), it never decreases, and when the filter
\* phase has ended, before finish_with_message, it equals the input length.
C9_ProgressCounter ==
    /\ []C9_CounterState
    /\ [][pb_pos' >= pb_pos]_vars

\* the filter has ended, finish_with_message has not run, every record was
\* counted though one failed the first clause and only one survived
C9_Witness ==
    /\ pc = "finish"
    /\ players = <<RecordB, RecordA, RecordE>>
    /\ args.max_age = 23
    /\ args.max_value = Fin(50)
    /\ pb_pos = 3
    /\ Len(filtered) = 1

\* C10: survivors with equal scores come out in input order (collect keeps
\* input order, the sort is stable), so the output is the one stable
\* descending arrangement of the survivors.
C10_TiesInInputOrder ==
    pc = "done" =>
        /\ Len(filtered) = Len(result)
        /\ \A i, j \in DOMAIN filtered :
              (/\ i < j
               /\ PartialCmp(calculate_score(filtered[i].rec, args.position),
                             calculate_score(filtered[j].rec, args.position))
                      = "Equal")
                  => filtered[i].src < filtered[j].src
        /\ \A k \in DOMAIN filtered :
              result[k] = players[filtered[k].src]

\* two different records tie, a better one arrives after them and is moved
\* to the front past both
C10_Witness ==
    /\ pc = "done"
    /\ players = <<RecordC, RecordA, RecordD>>
    /\ result = <<RecordD, RecordC, RecordA>>
    /\ calculate_score(RecordC, args.position)
           = calculate_score(RecordA, args.position)

----------------------------------------------------------------------------
(* Properties of calculate_score *)

\* the profiles as the specification tabulates them: field name and weight
\* in tenths
ProfileTable(code) ==
    CASE code = "ST" -> << <<"finishing", 20>>, <<"first_touch", 15>>,
                           <<"acceleration", 15>>, <<"pace", 15>>,
                           <<"composure", 10>> >>
      [] code = "CM" -> << <<"passing", 20>>, <<"vision", 15>>,
                           <<"decisions", 15>>, <<"stamina", 10>>,
                           <<"work_rate", 15>> >>
      [] code = "CB" -> << <<"tackling", 20>>, <<"strength", 15>>,
                           <<"jumping", 15>>, <<"anticipation", 15>>,
                           <<"decisions", 10>> >>
      [] OTHER -> << <<"technique", 10>>, <<"decisions", 10>>,
                     <<"stamina", 10>>, <<"strength", 10>>,
                     <<"work_rate", 10>> >>

\* the profile code an upper-case position string stands for
ProfileCode(up) ==
    CASE up = <<"S", "T">> -> "ST"
      [] up = <<"C", "M">> -> "CM"
      [] up = <<"C", "B">> -> "CB"
      [] OTHER -> "default"

\* 0.4 * weighted mean + 0.4 * potential / 200 + 0.2 * (1 - min(v, cap) / cap)
\* in 1/Scale, for a value that is finite, +inf (min is the cap) or NaN
\* (f64::min ignores it: min is the cap); a value of -inf makes the sum +inf
ExpectedScore(r, code) ==
    LET tab == ProfileTable(code)
        wsum == tab[1][2] + tab[2][2] + tab[3][2] + tab[4][2] + tab[5][2]
        asum == r[tab[1][1]] * tab[1][2] + r[tab[2][1]] * tab[2][2]
                    + r[tab[3][1]] * tab[3][2] + r[tab[4][1]] * tab[4][2]
                    + r[tab[5][1]] * tab[5][2]
        capped == IF r.value.k = "fin" /\ r.value.n < ValueCap
                  THEN r.value.n ELSE ValueCap
    IN  IF r.value.k = "ninf" THEN PInf
        ELSE Fin((4 * asum * Scale) \div (10 * wsum)
                 + (4 * r.potential_ability * Scale) \div (10 * 200)
                 + (2 * (ValueCap - capped) * Scale) \div (10 * ValueCap))

\* C3: calculate_score is 0.4 * attribute_score + 0.4 * potential_score
\* + 0.2 * value_score over exactly the five tabulated pairs of the profile
\* the uppercased position selects, with the same split for every profile.
C3_ScoreFormula ==
    \A i \in DOMAIN players :
        /\ Len(ProfileTable(ProfileCode(to_uppercase(args.position)))) = 5
        /\ calculate_score(players[i], args.position)
               = ExpectedScore(players[i],
                               ProfileCode(to_uppercase(args.position)))
        /\ pc = "displayed" =>
               score_log[1] = ExpectedScore(players[i],
                                  ProfileCode(to_uppercase(args.position)))

\* Record A scored for ST: 0.4 * 126.5 / 7.5 + 0.4 * 0.75 + 0.2 * 0.96
C3_Witness ==
    /\ pc = "displayed"
    /\ players = <<RecordA>>
    /\ args.position = <<"S", "T">>
    /\ score_log = <<Fin(108580)>>

\* C4: the profile depends on the uppercased position only: positions equal
\* up to letter case score alike, and a position that uppercases to none of
\* ST, CM, CB scores by the default profile, a number and not an error.
C4_CaseInsensitiveDispatch ==
    \A i \in DOMAIN players :
        /\ \A t \in Targets :
              to_uppercase(t) = to_uppercase(args.position) =>
                  calculate_score(players[i], t)
                      = calculate_score(players[i], args.position)
        /\ pc = "displayed" =>
              /\ score_log[1]
                     = calculate_score(players[i], to_uppercase(args.position))
              /\ to_uppercase(args.position) \notin {Str_ST, Str_CM, Str_CB}
                     => /\ score_log[1] = ExpectedScore(players[i], "default")
                        /\ score_log[1].k # "nan"

\* "st" scored like "ST", and unlike the default profile
C4_Witness ==
    /\ pc = "displayed"
    /\ args.position = <<"s", "t">>
    /\ players = <<RecordA>>
    /\ score_log = <<Fin(108580)>>
    /\ score_log[1] # ExpectedScore(RecordA, "default")

\* "GK" falls back to the default profile
C4_FallbackWitness ==
    /\ pc = "displayed"
    /\ args.position = <<"G", "K">>
    /\ players = <<RecordA>>
    /\ score_log[1] = ExpectedScore(RecordA, "default")

\* C5: value_score is 1.0 at market value 0, 0.5 at exactly 25,000,000 and
\* exactly 0.0 at every market value of 50,000,000 or more, so the score no
\* longer depends on a value once it is at or above the cap.
C5_ValueScoreClamp ==
    \A i \in DOMAIN players :
        LET r == players[i] IN
        /\ r.value = Money(0) => value_score(r) = One
        /\ r.value = Money(25000000) => value_score(r) = Fin(Scale \div 2)
        /\ FLe(Money(50000000), r.value) =>
              /\ value_score(r) = Fin(0)
              /\ \A v \in ScoreValues :
                    FLe(Money(50000000), v) =>
                        calculate_score([r EXCEPT !.value = v], args.position)
                            = calculate_score(r, args.position)
        /\ (r.value.k = "fin" /\ r.value.n >= 0) =>
              (FLe(Fin(0), value_score(r)) /\ FLe(value_score(r), One))

\* a record worth 60,000,000 was scored
C5_Witness ==
    /\ pc = "displayed"
    /\ players[1].value = Money(60000000)
    /\ value_score(players[1]) = Fin(0)
    /\ score_log[1] = calculate_score([players[1] EXCEPT !.value = PInf],
                                      args.position)

====
